---- MODULE Spec2Model ----
(***************************************************************************)
(* Codex Monitor (src/src/extension.ts): a VS Code extension that sums the *)
(* inserted characters of every text-document change event, and, when the  *)
(* sum reaches codexMonitor.minInsertedLength, logs the edit, starts a     *)
(* detached PowerShell-beep fallback chain, shows a notification and a     *)
(* status-bar message.                                                     *)
(*                                                                         *)
(* JavaScript runs one callback at a time: every action below is one       *)
(* synchronous stretch of code between two await points.  An external      *)
(* process (wslpath, powershell.exe, pwsh.exe) is outstanding between the  *)
(* action that spawns it and the action that handles its completion.       *)
(*                                                                         *)
(* Optional values (T | undefined) are sequences of length 0 or 1.         *)
(***************************************************************************)
EXTENDS Integers, Sequences, FiniteSets

(* ------------------------------ bounds -------------------------------- *)

\* change fragments per edit event
MaxFrags == 2
\* sound chain runs started in one behaviour
MaxRuns == 1
\* host API calls that throw in one behaviour
MaxHostFaults == 1
\* sound chain runs started in one behaviour of specification SpecOverlap
MaxOverlap == 2

(* ------------------------------ inputs -------------------------------- *)

Undefined == <<>>
Some(x) == <<x>>

\* uri.scheme of the edited document
Schemes == {"file", "untitled"}
\* document.fileName
FileNames == {"foo.ts", "bar.ts"}
\* One content change: the length of its inserted text and the length of the
\* range it replaces (rangeLength).  [0,7] is a pure deletion, [199,250] a
\* replacement that shrinks the document.
Fragments ==
    { [text |-> 0, rangeLength |-> 7], [text |-> 1, rangeLength |-> 0],
      [text |-> 199, rangeLength |-> 250] }
\* values of the setting codexMonitor.minInsertedLength when it is configured
ConfigValues == {-1, 50, 200}

SeqsUpTo(S, n) == UNION { [1..k -> S] : k \in 0..n }

\* the edit events the host can deliver
AllEvents ==
    [ scheme : Schemes, fileName : {"foo.ts"},
      contentChanges : SeqsUpTo(Fragments, MaxFrags) ]
\* the edit events of Spec and SpecFaults: two that the default threshold flags,
\* a small one, an empty one and one of an untitled document
AlertEvents ==
    { [scheme |-> "file", fileName |-> "foo.ts",
       contentChanges |-> <<[text |-> 199, rangeLength |-> 250]>>],
      [scheme |-> "file", fileName |-> "bar.ts",
       contentChanges |-> <<[text |-> 199, rangeLength |-> 250]>>],
      [scheme |-> "file", fileName |-> "foo.ts",
       contentChanges |-> <<[text |-> 1, rangeLength |-> 0]>>],
      [scheme |-> "file", fileName |-> "foo.ts", contentChanges |-> <<>>],
      [scheme |-> "untitled", fileName |-> "foo.ts",
       contentChanges |-> <<[text |-> 199, rangeLength |-> 250]>>] }
\* which appendLine call of a step throws (0: none); a step makes at most three
FaultPositions == 0..3

(* ------------------------------ state --------------------------------- *)

VARIABLES
    activated,      \* activate() has run: listener and command are registered
    platformIsWSL,  \* what isWSL() answers in this process
    config,         \* configured value of codexMonitor.minInsertedLength, if any
    outputChannel,  \* module variable outputChannel: Undefined or Some(channel id)
    channels,       \* channels[c]: number of lines appended to the c-th created channel
    runs,           \* the playCompletionSound() calls made so far, in call order
    lastEvent,      \* the last edit event delivered and what the callback did with it
    notifications,  \* showInformationMessage calls, in order
    statusBar,      \* setStatusBarMessage calls, in order
    consoleErrors,  \* console.error calls of the edit callback
    hostFaults      \* host API calls that threw so far

vars == << activated, platformIsWSL, config, outputChannel, channels, runs,
           lastEvent, notifications, statusBar, consoleErrors, hostFaults >>

(* ------------------------- output channel ----------------------------- *)

\* getOutputChannel without the `if (!outputChannel)` check: a channel is
\* created at every call
getOutputChannelAlwaysNew(oc, chs) == Some(Len(chs) + 1)

\* getOutputChannel(): the module variable after the call (created on first use)
getOutputChannel(oc, chs) ==
    IF oc = Undefined THEN Some(Len(chs) + 1) ELSE oc

\* the created channels after getOutputChannel()
channelsAfterGet(oc, chs) ==
    IF oc = Undefined THEN Append(chs, 0) ELSE chs

\* getOutputChannel().appendLine(..) called n times
appendLines(oc, chs, n) ==
    LET oc2 == getOutputChannel(oc, chs)
        chs2 == channelsAfterGet(oc, chs)
    IN  [chs2 EXCEPT ![oc2[1]] = @ + n]

(* --------------------------- EditClassifier --------------------------- *)

DefaultMinInsertedLength == 10

\* reduceSum with the replaced range subtracted (net growth of the document)
RECURSIVE reduceNet(_, _)
reduceNet(changes, sum) ==
    IF changes = <<>> THEN sum
    ELSE reduceNet(Tail(changes), sum + Head(changes).text - Head(changes).rangeLength)

RECURSIVE reduceSum(_, _)
\* contentChanges.map(change => change.text.length).reduce((sum, l) => sum + l, 0)
reduceSum(changes, sum) ==
    IF changes = <<>> THEN sum
    ELSE reduceSum(Tail(changes), sum + Head(changes).text)

\* getConfiguration("codexMonitor").get("minInsertedLength", defaultValue)
getMinInsertedLength(cfg, defaultValue) ==
    IF cfg = Undefined THEN defaultValue ELSE cfg[1]

\* readThreshold that uses the value it read at the previous event
readThresholdCached(cfg) ==
    IF lastEvent.seen
    THEN getMinInsertedLength(lastEvent.config, DefaultMinInsertedLength)
    ELSE getMinInsertedLength(cfg, DefaultMinInsertedLength)

\* the threshold an edit event is classified against
readThreshold(cfg) == getMinInsertedLength(cfg, DefaultMinInsertedLength)

\* getCodexLikeEditInfo with an exclusive boundary (insertedLength <= threshold)
getCodexLikeEditInfoExclusive(scheme, contentChanges, cfg) ==
    IF scheme # "file" THEN Undefined
    ELSE IF Len(contentChanges) = 0 THEN Undefined
    ELSE LET insertedLength == reduceSum(contentChanges, 0)
             threshold == readThreshold(cfg)
         IN  IF insertedLength <= threshold THEN Undefined
             ELSE Some([insertedLength |-> insertedLength, threshold |-> threshold])

\* getCodexLikeEditInfo without the uri.scheme check
getCodexLikeEditInfoAnyScheme(scheme, contentChanges, cfg) ==
    IF Len(contentChanges) = 0 THEN Undefined
    ELSE LET insertedLength == reduceSum(contentChanges, 0)
             threshold == readThreshold(cfg)
         IN  IF insertedLength < threshold THEN Undefined
             ELSE Some([insertedLength |-> insertedLength, threshold |-> threshold])

\* getCodexLikeEditInfo without the contentChanges.length check
getCodexLikeEditInfoNoEmptyCheck(scheme, contentChanges, cfg) ==
    IF scheme # "file" THEN Undefined
    ELSE LET insertedLength == reduceSum(contentChanges, 0)
             threshold == readThreshold(cfg)
         IN  IF insertedLength < threshold THEN Undefined
             ELSE Some([insertedLength |-> insertedLength, threshold |-> threshold])

\* getCodexLikeEditInfo(event): Undefined or Some(CodexEditInfo)
getCodexLikeEditInfo(scheme, contentChanges, cfg) ==
    IF scheme # "file" THEN Undefined
    ELSE IF Len(contentChanges) = 0 THEN Undefined
    ELSE LET insertedLength == reduceSum(contentChanges, 0)
             threshold == readThreshold(cfg)
         IN  IF insertedLength < threshold THEN Undefined
             ELSE Some([insertedLength |-> insertedLength, threshold |-> threshold])

(* ------------------------- SoundFallbackChain ------------------------- *)

\* outcomes of one external process started with execFileAsync
ExecOutcomes == {"ok", "failed"}
\* outcomes of wslpath -u: it fails, it prints nothing, it prints a path
WslPathOutcomes == {"failed", "empty", "path"}

\* toWslPath(windowsPath), given how the wslpath process ended
toWslPath(outcome, translated) ==
    IF outcome = "failed" THEN Undefined
    ELSE IF outcome = "empty" THEN Some("") ELSE Some(translated)

\* JavaScript truthiness of a (string | undefined)
truthy(opt) == opt # Undefined /\ opt[1] # ""

\* array.filter(candidate => candidate !== undefined) over optional entries
RECURSIVE filterDefined(_)
filterDefined(opts) ==
    IF opts = <<>> THEN <<>>
    ELSE Head(opts) \o filterDefined(Tail(opts))

\* getWslPowerShellCandidates where one failed translation drops both
\* translated candidates
getWslPowerShellCandidatesAllOrNothing(isWsl, powershellWslPath, pwsh7WslPath) ==
    LET both == truthy(powershellWslPath) /\ truthy(pwsh7WslPath)
    IN  IF ~isWsl THEN <<>>
        ELSE filterDefined(<<
            Some([command |-> "/mnt/c/Windows/System32/WindowsPowerShell/v1.0/powershell.exe",
                  label |-> "powershell.exe (absolute /mnt/c)"]),
            IF both
                THEN Some([command |-> powershellWslPath[1], label |-> "powershell.exe (wslpath)"])
                ELSE Undefined,
            Some([command |-> "pwsh.exe", label |-> "pwsh.exe (PATH)"]),
            Some([command |-> "/mnt/c/Program Files/PowerShell/7/pwsh.exe",
                  label |-> "pwsh.exe (absolute /mnt/c)"]),
            IF both
                THEN Some([command |-> pwsh7WslPath[1], label |-> "pwsh.exe (wslpath)"])
                ELSE Undefined >>)

\* getWslPowerShellCandidates that lists only the translated paths
getWslPowerShellCandidatesTranslatedOnly(isWsl, powershellWslPath, pwsh7WslPath) ==
    IF ~isWsl THEN <<>>
    ELSE filterDefined(<<
        IF truthy(powershellWslPath)
            THEN Some([command |-> powershellWslPath[1], label |-> "powershell.exe (wslpath)"])
            ELSE Undefined,
        IF truthy(pwsh7WslPath)
            THEN Some([command |-> pwsh7WslPath[1], label |-> "pwsh.exe (wslpath)"])
            ELSE Undefined >>)

\* getWslPowerShellCandidates(), given isWSL() and the two translations
getWslPowerShellCandidates(isWsl, powershellWslPath, pwsh7WslPath) ==
    IF ~isWsl THEN <<>>
    ELSE filterDefined(<<
        Some([command |-> "/mnt/c/Windows/System32/WindowsPowerShell/v1.0/powershell.exe",
              label |-> "powershell.exe (absolute /mnt/c)"]),
        IF truthy(powershellWslPath)
            THEN Some([command |-> powershellWslPath[1], label |-> "powershell.exe (wslpath)"])
            ELSE Undefined,
        Some([command |-> "pwsh.exe", label |-> "pwsh.exe (PATH)"]),
        Some([command |-> "/mnt/c/Program Files/PowerShell/7/pwsh.exe",
              label |-> "pwsh.exe (absolute /mnt/c)"]),
        IF truthy(pwsh7WslPath)
            THEN Some([command |-> pwsh7WslPath[1], label |-> "pwsh.exe (wslpath)"])
            ELSE Undefined >>)

\* the candidates of playViaPowerShellBeep() outside WSL
pathCandidates ==
    << [command |-> "powershell.exe", label |-> "powershell.exe (PATH)"],
       [command |-> "pwsh.exe", label |-> "pwsh.exe (PATH)"] >>

\* lines appended to the output channel by one run, by what they report
attemptLine(c) == [kind |-> "attempting", command |-> c.command, label |-> ""]
fallbackFailedLine(c) == [kind |-> "fallback failed", command |-> c.command, label |-> c.label]
wslpathFailedLine(windowsPath) ==
    [kind |-> "wslpath failed", command |-> "wslpath", label |-> windowsPath]
noCandidatesLine == [kind |-> "no candidates", command |-> "", label |-> ""]
succeededLine(method) ==
    [kind |-> "succeeded", command |-> method.command, label |-> method.label]
playbackFailedLine == [kind |-> "playback failed", command |-> "", label |-> ""]

\* A run of playCompletionSound() right after the call, before any of its code:
\*   pc          where the run is suspended, "done" or "rejected"
\*   wslpaths    results of the toWslPath calls made so far
\*   candidates  the candidate list (empty until it is built)
\*   invoked     the candidates given to execFileAsync, in order, with the outcome
\*   lines       the lines this run appended to the output channel, in order
\*   played      the SoundPlaybackMethod playViaPowerShellBeep() returned
newRun(origin) ==
    [ origin |-> origin, pc |-> "start", wslpaths |-> <<>>, candidates |-> <<>>,
      invoked |-> <<>>, lines |-> <<>>, played |-> Undefined ]

\* A step of a run: the lines it appends, in order, and the run afterwards.
Step(lines, run) == [lines |-> lines, run |-> run]

\* playbackFailed without the summary line
playbackFailedSilently(run) == Step(<<>>, [run EXCEPT !.pc = "done"])

\* playCompletionSound() after playViaPowerShellBeep() returned undefined
playbackFailed(run) ==
    Step(<<playbackFailedLine>>, [run EXCEPT !.pc = "done"])

\* playbackSucceeded without the return after logging the success
playbackSucceededThenFailed(run, method) ==
    Step(<<succeededLine(method), playbackFailedLine>>,
         [run EXCEPT !.pc = "done", !.played = Some(method)])

\* playCompletionSound() after playViaPowerShellBeep() returned a method
playbackSucceeded(run, method) ==
    Step(<<succeededLine(method)>>, [run EXCEPT !.pc = "done", !.played = Some(method)])

\* the then-steps of a step chained after a first one
andThen(first, next) == Step(first.lines \o next.lines, next.run)

\* one iteration of the for-loop up to its await: candidate i is logged and spawned
attempt(run, i) ==
    Step(<<attemptLine(run.candidates[i])>>,
         [run EXCEPT !.pc = "exec",
                     !.invoked = Append(@, [index |-> i, outcome |-> "pending"])])

\* playCandidates that spawns every candidate at once instead of awaiting each
playCandidatesAtOnce(run, candidates) ==
    Step([i \in 1..Len(candidates) |-> attemptLine(candidates[i])],
         [run EXCEPT !.candidates = candidates, !.pc = "exec",
                     !.invoked = [i \in 1..Len(candidates) |->
                                     [index |-> i, outcome |-> "pending"]]])

\* playViaPowerShellBeep() from the candidate list on
playCandidates(run, candidates) ==
    LET r == [run EXCEPT !.candidates = candidates]
    IN  IF Len(candidates) = 0
        THEN andThen(Step(<<noCandidatesLine>>, r), playbackFailed(r))
        ELSE attempt(r, 1)

\* startSound that blocks until its first external process has ended (and failed)
startSoundBlocking(origin, isWsl) ==
    LET run == newRun(origin)
        first == playCandidates(run, pathCandidates)
        failed == [first.run EXCEPT !.invoked[1].outcome = "failed"]
    IN  IF isWsl
        THEN Step(<<wslpathFailedLine("C:/Windows/System32/WindowsPowerShell/v1.0/powershell.exe")>>,
                  [run EXCEPT !.pc = "wslpath", !.wslpaths = <<Undefined>>])
        ELSE andThen(first,
                     andThen(Step(<<fallbackFailedLine(pathCandidates[1])>>, failed),
                             attempt(failed, 2)))

\* the call playCompletionSound() up to its first await
startSound(origin, isWsl) ==
    LET run == newRun(origin)
    IN  IF isWsl
        THEN IF ~isWsl
             THEN playCandidates(run, getWslPowerShellCandidates(isWsl, Undefined, Undefined))
             ELSE Step(<<>>, [run EXCEPT !.pc = "wslpath"])
        ELSE playCandidates(run, pathCandidates)

\* afterExec that invokes a failed candidate a second time before moving on
afterExecRetry(run, outcome) ==
    LET i == run.invoked[Len(run.invoked)].index
        candidate == run.candidates[i]
        r == [run EXCEPT !.invoked[Len(run.invoked)].outcome = outcome]
        tries == Cardinality({ k \in 1..Len(run.invoked) : run.invoked[k].index = i })
    IN  IF outcome = "ok"
        THEN playbackSucceeded(r, [label |-> candidate.label, command |-> candidate.command])
        ELSE andThen(Step(<<fallbackFailedLine(candidate)>>, r),
                     IF tries < 2 THEN attempt(r, i)
                     ELSE IF i < Len(run.candidates) THEN attempt(r, i + 1)
                     ELSE playbackFailed(r))

\* afterExec whose loop goes on after a success instead of returning
afterExecNoReturn(run, outcome) ==
    LET i == run.invoked[Len(run.invoked)].index
        candidate == run.candidates[i]
        r == [run EXCEPT !.invoked[Len(run.invoked)].outcome = outcome]
    IN  IF outcome = "ok"
        THEN IF i < Len(run.candidates) THEN attempt(r, i + 1)
             ELSE playbackSucceeded(r, [label |-> candidate.label,
                                        command |-> candidate.command])
        ELSE andThen(Step(<<fallbackFailedLine(candidate)>>, r),
                     IF i < Len(run.candidates) THEN attempt(r, i + 1)
                     ELSE playbackFailed(r))

\* the run resumes after `await execFileAsync(candidate.command, args)`
afterExec(run, outcome) ==
    LET i == run.invoked[Len(run.invoked)].index
        candidate == run.candidates[i]
        r == [run EXCEPT !.invoked[Len(run.invoked)].outcome = outcome]
    IN  IF outcome = "ok"
        THEN playbackSucceeded(r, [label |-> candidate.label, command |-> candidate.command])
        ELSE andThen(Step(<<fallbackFailedLine(candidate)>>, r),
                     IF i < Len(run.candidates) THEN attempt(r, i + 1)
                     ELSE playbackFailed(r))

\* the run resumes after the wslpath process of a toWslPath call ended
afterWslPath(run, outcome, isWsl) ==
    LET n == Len(run.wslpaths) + 1
        windowsPath == IF n = 1 THEN "C:/Windows/System32/WindowsPowerShell/v1.0/powershell.exe"
                       ELSE "C:/Program Files/PowerShell/7/pwsh.exe"
        path == toWslPath(outcome, "wslpath -u " \o windowsPath)
        r == [run EXCEPT !.wslpaths = Append(@, path)]
        logged == Step(IF outcome = "failed" THEN <<wslpathFailedLine(windowsPath)>>
                       ELSE <<>>, r)
    IN  IF n = 1 THEN logged
        ELSE andThen(logged,
                playCandidates(r,
                    getWslPowerShellCandidates(isWsl, r.wslpaths[1], r.wslpaths[2])))

\* A step in which the k-th appendLine call throws (k = 0: none does): the
\* lines before it are appended and the async function's promise is rejected.
commit(run, step, k) ==
    IF k = 0 THEN [step.run EXCEPT !.lines = run.lines \o step.lines]
    ELSE [run EXCEPT !.pc = "rejected",
                     !.lines = run.lines \o SubSeq(step.lines, 1, k - 1)]

\* lines appended by a step whose k-th appendLine throws
appended(step, k) == IF k = 0 THEN Len(step.lines) ELSE k - 1

(* --------------------------- AlertDispatcher -------------------------- *)

\* a synchronous playCompletionSound: the throw in its body reaches the caller
syncCallThrows(run) == run.pc = "rejected"

\* Calling an async function never throws: a throw in its body rejects the
\* promise it returns.  TRUE iff the call playCompletionSound() itself throws.
callThrows(run) == FALSE

\* `[<time>] Codex-like edit: <n> chars (threshold <t>) in <fileName>`
editLine(fileName, info) ==
    [insertedLength |-> info.insertedLength, threshold |-> info.threshold,
     fileName |-> fileName]
editNotification(fileName) == [kind |-> "Codex-like edit detected in", fileName |-> fileName]
testNotification == [kind |-> "Codex Monitor test beep requested.", fileName |-> ""]
activatedNotification == [kind |-> "Codex monitor extension activated.", fileName |-> ""]
editStatusMessage == [text |-> "Codex-like edit finished", hideAfterTimeout |-> 3000]

\* The host API calls of the edit callback that can throw, in call order.
ThrowPoints == {"none", "config", "log", "notify", "status"}

\* handleCodexLikeEdit with a single-flight guard: no new run is started while
\* an earlier one is in progress
handleCodexLikeEditSingleFlight(fileName, info, isWsl, throwAt, soundFault) ==
    LET busy == \E r \in 1..Len(runs) : runs[r].pc \in {"exec", "wslpath"}
        step == startSound("edit", isWsl)
        run == commit(newRun("edit"), step, soundFault)
    IN  [ lines |-> <<editLine(fileName, info[1])>>,
          run |-> IF busy THEN Undefined ELSE Some(run),
          runLines |-> IF busy THEN 0 ELSE appended(step, soundFault),
          notifications |-> <<editNotification(fileName)>>,
          statusBar |-> <<editStatusMessage>>, threw |-> FALSE ]

\* handleCodexLikeEdit(document, info), where the host call `throwAt` throws and
\* the soundFault-th appendLine of the run's first stretch throws:
\*   lines          lines the dispatcher itself appended (the edit line)
\*   run            the run it started, if it got that far
\*   runLines       lines that run appended before its first await
\*   notifications  showInformationMessage calls made
\*   statusBar      setStatusBarMessage calls made
\*   threw          an exception left handleCodexLikeEdit
handleCodexLikeEdit(fileName, info, isWsl, throwAt, soundFault) ==
    LET none == [lines |-> <<>>, run |-> Undefined, runLines |-> 0,
                 notifications |-> <<>>, statusBar |-> <<>>, threw |-> TRUE]
        step == startSound("edit", isWsl)
        run == commit(newRun("edit"), step, soundFault)
        started == [none EXCEPT !.lines = <<editLine(fileName, info[1])>>,
                                !.run = Some(run),
                                !.runLines = appended(step, soundFault)]
        notified == [started EXCEPT !.notifications = <<editNotification(fileName)>>]
    IN  IF throwAt = "log" THEN none
        ELSE IF callThrows(run) THEN started
        ELSE IF throwAt = "notify" THEN started
        ELSE IF throwAt = "status" THEN notified
        ELSE [notified EXCEPT !.statusBar = <<editStatusMessage>>, !.threw = FALSE]

\* the callback without its try/catch: the exception reaches the host
noCatch(threw) == [consoleError |-> FALSE, escaped |-> threw]

\* try { .. } catch (error) { console.error(..) } around the callback's body
tryCatch(threw) == [consoleError |-> threw, escaped |-> FALSE]

\* afterTestSound that notifies only when the sound was played
afterTestSoundOnSuccess(run) ==
    IF run.origin = "test" /\ run.pc = "done" /\ run.played # Undefined
    THEN <<testNotification>> ELSE <<>>

\* the playTestSound command after `await playCompletionSound()`
afterTestSound(run) ==
    IF run.origin = "test" /\ run.pc = "done" THEN <<testNotification>> ELSE <<>>

(* ------------------------------ actions ------------------------------- *)

NoEvent ==
    [ seen |-> FALSE, scheme |-> "", fileName |-> "", contentChanges |-> <<>>,
      config |-> Undefined, info |-> Undefined, threw |-> "none", alerted |-> FALSE,
      caught |-> FALSE, escaped |-> FALSE, run |-> 0, notification |-> 0, status |-> 0,
      priorConfig |-> Undefined ]

Init ==
    /\ activated = FALSE
    /\ platformIsWSL \in BOOLEAN
    /\ config = Undefined
    /\ outputChannel = Undefined
    /\ channels = <<>>
    /\ runs = <<>>
    /\ lastEvent = NoEvent
    /\ notifications = <<>>
    /\ statusBar = <<>>
    /\ consoleErrors = 0
    /\ hostFaults = 0

\* the user edits the setting (or removes it)
configurationChanged(value) ==
    /\ value # config
    /\ config' = value
    /\ UNCHANGED << activated, platformIsWSL, outputChannel, channels, runs,
                    lastEvent, notifications, statusBar, consoleErrors, hostFaults >>

activate ==
    /\ ~activated
    /\ activated' = TRUE
    /\ outputChannel' = getOutputChannel(outputChannel, channels)
    /\ channels' = channelsAfterGet(outputChannel, channels)
    /\ notifications' = Append(notifications, activatedNotification)
    /\ UNCHANGED << platformIsWSL, config, runs, lastEvent, statusBar, consoleErrors,
                    hostFaults >>

\* the onDidChangeTextDocument callback, for one event
onDidChangeTextDocument(scheme, fileName, contentChanges, throwAt, soundFault, maxRuns) ==
    LET reachesConfig == scheme = "file" /\ Len(contentChanges) > 0
        info == IF throwAt = "config" THEN Undefined
                ELSE getCodexLikeEditInfo(scheme, contentChanges, config)
        alerted == info # Undefined
        d == handleCodexLikeEdit(fileName, info, platformIsWSL, throwAt, soundFault)
        faults == (IF throwAt = "none" THEN 0 ELSE 1) + (IF soundFault = 0 THEN 0 ELSE 1)
        end == tryCatch(IF alerted THEN d.threw ELSE throwAt = "config")
        event == [ seen |-> TRUE, scheme |-> scheme, fileName |-> fileName,
                   contentChanges |-> contentChanges, config |-> config, info |-> info,
                   threw |-> throwAt, alerted |-> alerted,
                   caught |-> end.consoleError, escaped |-> end.escaped, run |-> 0, notification |-> 0, status |-> 0,
                   priorConfig |-> lastEvent.config ]
    IN  /\ activated
        /\ hostFaults + faults <= MaxHostFaults
        /\ soundFault \in 0..Len(startSound("edit", platformIsWSL).lines)
        /\ throwAt = "config" => reachesConfig
        /\ throwAt \notin {"none", "config"} => alerted
        /\ hostFaults' = hostFaults + faults
        /\ consoleErrors' = consoleErrors + (IF end.consoleError THEN 1 ELSE 0)
        /\ IF ~alerted
           THEN /\ soundFault = 0
                /\ lastEvent' = event
                /\ UNCHANGED << outputChannel, channels, runs, notifications,
                                statusBar >>
           ELSE /\ d.run # Undefined => Len(runs) < maxRuns
                /\ d.run = Undefined => soundFault = 0
                /\ outputChannel' = getOutputChannel(outputChannel, channels)
                /\ channels' = appendLines(outputChannel, channels,
                                           Len(d.lines) + d.runLines)
                /\ runs' = runs \o d.run
                /\ notifications' = notifications \o d.notifications
                /\ statusBar' = statusBar \o d.statusBar
                /\ lastEvent' =
                     [event EXCEPT
                        !.run = IF d.run = Undefined THEN 0 ELSE Len(runs) + 1,
                        !.notification = IF d.notifications = <<>> THEN 0
                                         ELSE Len(notifications) + 1,
                        !.status = IF d.statusBar = <<>> THEN 0 ELSE Len(statusBar) + 1]
        /\ UNCHANGED << activated, platformIsWSL, config >>

\* the codexMonitor.playTestSound command up to its first await; `fault` is
\* TRUE when its own appendLine throws
playTestSound(fault, soundFault, maxRuns) ==
    LET step == startSound("test", platformIsWSL)
        faults == (IF fault THEN 1 ELSE 0) + (IF soundFault = 0 THEN 0 ELSE 1)
        run == commit(newRun("test"), step, soundFault)
    IN  /\ activated
        /\ Len(runs) < maxRuns
        /\ hostFaults + faults <= MaxHostFaults
        /\ soundFault \in 0..Len(step.lines)
        /\ hostFaults' = hostFaults + faults
        /\ IF fault
           THEN /\ soundFault = 0
                /\ UNCHANGED << outputChannel, channels, runs, notifications >>
           ELSE /\ outputChannel' = getOutputChannel(outputChannel, channels)
                /\ channels' = appendLines(outputChannel, channels,
                                           1 + appended(step, soundFault))
                /\ runs' = Append(runs, run)
                /\ notifications' = notifications \o afterTestSound(run)
        /\ UNCHANGED << activated, platformIsWSL, config, lastEvent, statusBar,
                        consoleErrors >>

\* a step of run r: `step` resumes it, its k-th appendLine throws (0: none)
resume(r, step, k) ==
    LET run == commit(runs[r], step, k)
    IN  /\ k \in 0..Len(step.lines)
        /\ hostFaults + (IF k = 0 THEN 0 ELSE 1) <= MaxHostFaults
        /\ hostFaults' = hostFaults + (IF k = 0 THEN 0 ELSE 1)
        /\ runs' = [runs EXCEPT ![r] = run]
        /\ outputChannel' = getOutputChannel(outputChannel, channels)
        /\ channels' = appendLines(outputChannel, channels, appended(step, k))
        /\ notifications' = notifications \o afterTestSound(run)
        /\ UNCHANGED << activated, platformIsWSL, config, lastEvent, statusBar,
                        consoleErrors >>

\* the process of the candidate run r awaits has ended
execFileDone(r, outcome, k) ==
    /\ runs[r].pc = "exec"
    /\ resume(r, afterExec(runs[r], outcome), k)

\* the wslpath process run r awaits has ended
wslpathDone(r, outcome, k) ==
    /\ runs[r].pc = "wslpath"
    /\ resume(r, afterWslPath(runs[r], outcome, platformIsWSL), k)

\* the host delivers an edit event to the callback
editEvent(events, throwPoints, faults, maxRuns) ==
    \E e \in events, throwAt \in throwPoints, k \in faults :
        onDidChangeTextDocument(e.scheme, e.fileName, e.contentChanges, throwAt, k, maxRuns)

\* an external process of some run ends
processEnds(execOutcomes, wslpathOutcomes, faults) ==
    \E r \in 1..Len(runs), k \in faults :
        \/ \E outcome \in execOutcomes : execFileDone(r, outcome, k)
        \/ \E outcome \in wslpathOutcomes : wslpathDone(r, outcome, k)

\* Specification Spec: both platforms, edit events and the test command, every
\* outcome of every external process; no host API call throws.
Next ==
    \/ activate
    \/ editEvent(AlertEvents, {"none"}, {0}, MaxRuns)
    \/ playTestSound(FALSE, 0, MaxRuns)
    \/ processEnds(ExecOutcomes, WslPathOutcomes, {0})

Spec == Init /\ [][Next]_vars

\* Specification SpecFaults: every external call fails.  Edit events on both
\* platforms, where every external process (candidate or wslpath) fails and
\* any host API call of the callback or of a run may throw.
NextFaults ==
    \/ activate
    \/ editEvent(AlertEvents, ThrowPoints, FaultPositions, MaxRuns)
    \/ processEnds({"failed"}, {"failed"}, FaultPositions)

SpecFaults == Init /\ [][NextFaults]_vars

\* Specification SpecClassifier: the classifier under every edit event and
\* every configuration, outside WSL; external processes stay outstanding.
InitClassifier == Init /\ platformIsWSL = FALSE

NextClassifier ==
    \/ activate
    \/ \E value \in {Undefined} \cup { Some(v) : v \in ConfigValues } :
            configurationChanged(value)
    \/ editEvent(AllEvents, {"none"}, {0}, MaxRuns)

SpecClassifier == InitClassifier /\ [][NextClassifier]_vars

\* Specification SpecOverlap: several runs in progress at once.  Edit events
\* and the test command on both platforms; a candidate succeeds or fails, every
\* path translation fails; no host API call throws.
OverlapEvents ==
    { [scheme |-> "file", fileName |-> "foo.ts",
       contentChanges |-> <<[text |-> 199, rangeLength |-> 250]>>],
      [scheme |-> "file", fileName |-> "foo.ts",
       contentChanges |-> <<[text |-> 1, rangeLength |-> 0]>>] }

NextOverlap ==
    \/ activate
    \/ editEvent(OverlapEvents, {"none"}, {0}, MaxOverlap)
    \/ playTestSound(FALSE, 0, MaxOverlap)
    \/ processEnds(ExecOutcomes, {"failed"}, {0})

SpecOverlap == Init /\ [][NextOverlap]_vars

\* the external process run r awaits ends, with any outcome
runProcessEnds(r) ==
    /\ r \in 1..Len(runs)
    /\ \/ \E outcome \in ExecOutcomes : execFileDone(r, outcome, 0)
       \/ \E outcome \in WslPathOutcomes : wslpathDone(r, outcome, 0)

\* Specification FairSpec: runs started by a flagged edit event or by the test
\* command on both platforms, every outcome of every external process, where
\* every external process eventually ends; no host API call throws.
FairEvents ==
    { [scheme |-> "file", fileName |-> "foo.ts",
       contentChanges |-> <<[text |-> 199, rangeLength |-> 250]>>] }

NextFair ==
    \/ activate
    \/ editEvent(FairEvents, {"none"}, {0}, MaxRuns)
    \/ playTestSound(FALSE, 0, MaxRuns)
    \/ processEnds(ExecOutcomes, WslPathOutcomes, {0})

FairSpec ==
    Init /\ [][NextFair]_vars /\ \A r \in 1..MaxRuns : WF_vars(runProcessEnds(r))

(* ------------------------------ claims ------------------------------- *)

\* the sum of the inserted-text lengths of an event's change fragments
RECURSIVE InsertedTotal(_)
InsertedTotal(changes) ==
    IF Len(changes) = 0 THEN 0
    ELSE InsertedTotal(SubSeq(changes, 1, Len(changes) - 1)) + changes[Len(changes)].text

\* the last event is file-backed and has at least one change fragment
Qualified(e) == e.seen /\ e.scheme = "file" /\ Len(e.contentChanges) >= 1

\* the callback's handling of the last event issued the alert
Alerted(e) ==
    /\ e.alerted
    /\ e.run \in 1..Len(runs)
    /\ e.notification \in 1..Len(notifications)
    /\ notifications[e.notification] = editNotification(e.fileName)
    /\ e.status \in 1..Len(statusBar)
    /\ statusBar[e.status] = editStatusMessage

\* C1: a file-backed edit event with at least one change fragment, handled
\* while the setting is configured to T, is flagged, and the alert is issued,
\* exactly when its summed inserted length S is at least T.
C1_FlaggedIffAtLeastThreshold ==
    (Qualified(lastEvent) /\ lastEvent.config # Undefined) =>
        LET S == InsertedTotal(lastEvent.contentChanges)
            T == lastEvent.config[1]
        IN  /\ (lastEvent.info # Undefined) <=> (S >= T)
            /\ Alerted(lastEvent) <=> (S >= T)

\* S = T is flagged (200 characters against a threshold of 200)
C1_Witness ==
    /\ Qualified(lastEvent)
    /\ lastEvent.config = Some(200)
    /\ InsertedTotal(lastEvent.contentChanges) = 200
    /\ Alerted(lastEvent)

C3_DisqualifiedEventsIgnored ==
    [][ ( /\ lastEvent' # lastEvent
          /\ (lastEvent'.scheme # "file" \/ Len(lastEvent'.contentChanges) = 0) )
        => ( /\ lastEvent'.info = Undefined
             /\ ~lastEvent'.alerted
             /\ UNCHANGED << runs, notifications, statusBar, outputChannel, channels,
                             consoleErrors >> ) ]_vars

\* an untitled document receives 199 characters while the threshold is -1
C3_Witness ==
    /\ lastEvent.seen
    /\ lastEvent.scheme = "untitled"
    /\ InsertedTotal(lastEvent.contentChanges) = 199
    /\ lastEvent.config = Some(-1)
    /\ lastEvent.info = Undefined

\* C4 as stated: while the setting has no configured value, an event is
\* flagged exactly when its summed inserted length is at least 200.
C4_UnconfiguredThresholdIs200 ==
    (Qualified(lastEvent) /\ lastEvent.config = Undefined) =>
        ((lastEvent.info # Undefined) <=> (InsertedTotal(lastEvent.contentChanges) >= 200))

\* C5: every edit event is classified against the value the setting has when
\* the event is handled, whatever it was at earlier events.
C5_ThresholdReadPerEvent ==
    [][ ( /\ lastEvent' # lastEvent
          /\ Qualified(lastEvent')
          /\ config # Undefined )
        => LET S == InsertedTotal(lastEvent'.contentChanges)
           IN  IF S >= config[1]
               THEN lastEvent'.info = Some([insertedLength |-> S, threshold |-> config[1]])
               ELSE lastEvent'.info = Undefined ]_vars

\* the setting went from 200 at one event to 50 at the next, which is flagged
\* with 199 characters
C5_Witness ==
    /\ Qualified(lastEvent)
    /\ lastEvent.priorConfig = Some(200)
    /\ lastEvent.config = Some(50)
    /\ lastEvent.info = Some([insertedLength |-> 199, threshold |-> 50])

\* the lines of a run that are of one kind
LinesOfKind(run, kind) == { i \in 1..Len(run.lines) : run.lines[i].kind = kind }

\* the run finished and reported overall failure after attempting candidates
AllCandidatesFailed(run) ==
    /\ run.pc = "done"
    /\ run.played = Undefined
    /\ Len(run.invoked) >= 1

\* C6: in every run the k-th invocation is of the k-th candidate of the list,
\* every invocation before the latest one has failed, and a run whose latest
\* invocation succeeded has finished: no candidate is invoked after a success.
C6_InOrderStopAtFirstSuccess ==
    \A r \in 1..Len(runs) :
        LET run == runs[r]
            n == Len(run.invoked)
        IN  /\ n <= Len(run.candidates)
            /\ \A k \in 1..n : run.invoked[k].index = k
            /\ \A k \in 1..(n - 1) : run.invoked[k].outcome = "failed"
            /\ (n >= 1 /\ run.invoked[n].outcome = "ok") =>
                  (run.pc = "done" /\ run.played # Undefined)

\* [A fails, B succeeds, C]: a finished run of at least three candidates that
\* invoked the first two only
C6_Witness ==
    \E r \in 1..Len(runs) :
        /\ runs[r].pc = "done"
        /\ Len(runs[r].candidates) >= 3
        /\ Len(runs[r].invoked) = 2
        /\ runs[r].invoked[1].outcome = "failed"
        /\ runs[r].invoked[2].outcome = "ok"

\* C7 as stated: a run in which every attempted candidate failed has appended
\* n + 1 lines for its n attempted candidates.
C7_OneLinePerCandidate ==
    \A r \in 1..Len(runs) :
        AllCandidatesFailed(runs[r]) => Len(runs[r].lines) = Len(runs[r].invoked) + 1

\* C7 amended: such a run reports overall failure and has appended, for its n
\* attempted candidates, n attempt lines, n failure lines and one summary
\* line, and besides them only one line per failed path translation.
C7_TwoLinesPerCandidate ==
    \A r \in 1..Len(runs) :
        AllCandidatesFailed(runs[r]) =>
            LET run == runs[r]
                n == Len(run.invoked)
                w == Cardinality({ i \in 1..Len(run.wslpaths) : run.wslpaths[i] = Undefined })
            IN  /\ n = Len(run.candidates)
                /\ \A k \in 1..n : run.invoked[k].outcome = "failed"
                /\ Cardinality(LinesOfKind(run, "attempting")) = n
                /\ Cardinality(LinesOfKind(run, "fallback failed")) = n
                /\ Cardinality(LinesOfKind(run, "playback failed")) = 1
                /\ Cardinality(LinesOfKind(run, "wslpath failed")) = w
                /\ run.lines[Len(run.lines)] = playbackFailedLine
                /\ Len(run.lines) = 2 * n + 1 + w

\* outside WSL both candidates failed: five lines
C7_Witness ==
    \E r \in 1..Len(runs) :
        /\ AllCandidatesFailed(runs[r])
        /\ runs[r].candidates = pathCandidates
        /\ Len(runs[r].lines) = 5

\* C8: when the callback's own host calls do not throw, a flagged edit event
\* ends with the callback completed normally and with the notification naming
\* the document and the 3000 ms status-bar message issued, whatever becomes of
\* the sound run (every process failing, its logging throwing).
C8_DispatchIssuesUserCalls ==
    (lastEvent.alerted /\ lastEvent.threw = "none") =>
        /\ ~lastEvent.caught
        /\ ~lastEvent.escaped
        /\ Alerted(lastEvent)

\* in WSL both path translations and all three remaining candidates failed,
\* and the notification and the status-bar message of that event are there
C8_Witness ==
    /\ lastEvent.alerted
    /\ lastEvent.threw = "none"
    /\ Alerted(lastEvent)
    /\ AllCandidatesFailed(runs[lastEvent.run])
    /\ runs[lastEvent.run].wslpaths = <<Undefined, Undefined>>
    /\ Len(runs[lastEvent.run].invoked) = 3

\* C9: when a host call throws during the classification or the dispatch of an
\* edit event, the callback logs it with console.error and nothing escapes to
\* the host; the listener stays registered.
C9_ExceptionsCaughtAtCallback ==
    [][ (lastEvent' # lastEvent) =>
            /\ ~lastEvent'.escaped
            /\ lastEvent'.caught <=> (lastEvent'.threw # "none")
            /\ consoleErrors' = consoleErrors + (IF lastEvent'.threw # "none" THEN 1 ELSE 0)
            /\ activated' ]_vars

\* an edit event is flagged and alerted after an earlier one threw
C9_Witness ==
    /\ consoleErrors = 1
    /\ lastEvent.threw = "none"
    /\ Alerted(lastEvent)

\* C10 as stated: no run started by the edit callback ends with its promise
\* rejected (the promise has no rejection handler).
C10_NoUnhandledRejection ==
    \A r \in 1..Len(runs) : runs[r].origin = "edit" => runs[r].pc # "rejected"

\* no external process of the run has ended yet, and one is outstanding
FirstProcessOutstanding(run) ==
    /\ run.pc \in {"exec", "wslpath"}
    /\ run.wslpaths = <<>>
    /\ \A i \in 1..Len(run.invoked) : run.invoked[i].outcome = "pending"

\* C11: when the callback returns from a flagged event, the notification and
\* the status-bar message are issued and no external process of the run it
\* started has ended (its first one is outstanding), and the runs already in
\* progress are untouched; and while any run waits for an external process,
\* the callback can still take and flag an edit event.
C11_CallbackDoesNotWait ==
    /\ [][(lastEvent' # lastEvent /\ lastEvent'.alerted) =>
            /\ Alerted(lastEvent)'
            /\ FirstProcessOutstanding(runs'[lastEvent'.run])
            /\ SubSeq(runs', 1, Len(runs)) = runs]_vars
    /\ []((\E r \in 1..Len(runs) : runs[r].pc \in {"exec", "wslpath"}) =>
            ENABLED onDidChangeTextDocument("file", "foo.ts",
                        <<[text |-> 199, rangeLength |-> 250]>>, "none", 0,
                        Len(runs) + 1))

\* a later flagged event has been handled, alert issued, while the first
\* external process of an earlier run is still outstanding
C11_Witness ==
    /\ Alerted(lastEvent)
    /\ lastEvent.run >= 2
    /\ FirstProcessOutstanding(runs[lastEvent.run])
    /\ \E r \in 1..(lastEvent.run - 1) : FirstProcessOutstanding(runs[r])

\* the external processes a run has started that have not ended
Outstanding(run) ==
    (IF run.pc = "wslpath" THEN 1 ELSE 0)
    + Cardinality({ i \in 1..Len(run.invoked) : run.invoked[i].outcome = "pending" })

\* C12: a run has at most one external process outstanding, exactly one while
\* it is suspended and none once it finished; only its latest candidate
\* invocation can be pending, the second path translation starts after the
\* first has ended, and in WSL no candidate is invoked before both path
\* translations have ended.
C12_OneProcessAtATime ==
    \A r \in 1..Len(runs) :
        LET run == runs[r]
        IN  /\ Outstanding(run) <= 1
            /\ Outstanding(run) = 1 <=> run.pc \in {"exec", "wslpath"}
            /\ \A i \in 1..Len(run.invoked) :
                    run.invoked[i].outcome = "pending" => i = Len(run.invoked)
            /\ run.pc = "wslpath" => (run.invoked = <<>> /\ Len(run.wslpaths) < 2)
            /\ (platformIsWSL /\ run.invoked # <<>>) => Len(run.wslpaths) = 2
            /\ ~platformIsWSL => run.wslpaths = <<>>

\* a WSL run whose two path translations and first candidate have ended waits
\* for its second candidate
C12_Witness ==
    \E r \in 1..Len(runs) :
        /\ Len(runs[r].wslpaths) = 2
        /\ Len(runs[r].invoked) = 2
        /\ runs[r].invoked[1].outcome = "failed"
        /\ runs[r].invoked[2].outcome = "pending"
        /\ Outstanding(runs[r]) = 1

\* C13: every flagged edit event starts exactly one new run, whatever runs are
\* already in progress: the runs before it are left as they were, and the new
\* run starts at the beginning of its own chain (no path translated, and at
\* most its first candidate invoked).
C13_EveryFlaggedEventStartsARun ==
    [][(lastEvent' # lastEvent /\ lastEvent'.alerted) =>
        /\ Len(runs') = Len(runs) + 1
        /\ SubSeq(runs', 1, Len(runs)) = runs
        /\ lastEvent'.run = Len(runs')
        /\ runs'[Len(runs')].origin = "edit"
        /\ runs'[Len(runs')].wslpaths = <<>>
        /\ runs'[Len(runs')].invoked =
              IF platformIsWSL THEN <<>> ELSE <<[index |-> 1, outcome |-> "pending"]>>]_vars

\* two runs started by edit events are in progress at once, each with an
\* external process of its own outstanding
C13_Witness ==
    /\ Len(runs) >= 2
    /\ \A r \in 1..2 : runs[r].origin = "edit" /\ Outstanding(runs[r]) = 1

\* the labels of a run's candidates, in list order
Labels(run) == [i \in 1..Len(run.candidates) |-> run.candidates[i].label]

\* the WSL candidate labels in list order, given which translations are usable
WslLabels(first, second) ==
    <<"powershell.exe (absolute /mnt/c)">>
    \o (IF first THEN <<"powershell.exe (wslpath)">> ELSE <<>>)
    \o <<"pwsh.exe (PATH)", "pwsh.exe (absolute /mnt/c)">>
    \o (IF second THEN <<"pwsh.exe (wslpath)">> ELSE <<>>)

\* path translations of the run that failed
FailedTranslations(run) ==
    { n \in 1..Len(run.wslpaths) : run.wslpaths[n] = Undefined }

\* C14: in WSL a failed path translation is logged once and is not fatal: after
\* a failed first translation the second one is still made, and once both have
\* ended the candidate list is the fixed list less exactly the translated-path
\* candidates whose translation gave no usable path, in the same relative
\* order, and the run goes on to invoke candidates.
C14_TranslationFailureNonFatal ==
    \A r \in 1..Len(runs) :
        LET run == runs[r]
        IN  /\ Cardinality(LinesOfKind(run, "wslpath failed"))
                  = Cardinality(FailedTranslations(run))
            /\ Len(run.wslpaths) = 1 => run.pc = "wslpath"
            /\ Len(run.wslpaths) = 2 =>
                  /\ Labels(run) = WslLabels(truthy(run.wslpaths[1]),
                                             truthy(run.wslpaths[2]))
                  /\ Len(run.invoked) >= 1
                  /\ run.invoked[1].index = 1

\* the first translation failed and the second succeeded: the run invoked
\* candidates of a list that has the second translated path but not the first
C14_Witness ==
    \E r \in 1..Len(runs) :
        /\ Len(runs[r].wslpaths) = 2
        /\ runs[r].wslpaths[1] = Undefined
        /\ truthy(runs[r].wslpaths[2])
        /\ Labels(runs[r]) = <<"powershell.exe (absolute /mnt/c)", "pwsh.exe (PATH)",
                               "pwsh.exe (absolute /mnt/c)", "pwsh.exe (wslpath)">>
        /\ Len(runs[r].invoked) = 4

\* the event is not flagged: not file-backed, or no change fragment, or its
\* summed inserted length is below the threshold in force when it is handled
Unflagged(e) ==
    \/ e.scheme # "file"
    \/ Len(e.contentChanges) = 0
    \/ InsertedTotal(e.contentChanges)
          < getMinInsertedLength(e.config, DefaultMinInsertedLength)

\* C15: handling an unflagged edit event starts no run, issues no notification
\* and no status-bar message, and appends no line to the output channel (nor
\* creates one).
C15_UnflaggedEventDoesNothing ==
    [][(lastEvent' # lastEvent /\ Unflagged(lastEvent')) =>
        UNCHANGED << runs, notifications, statusBar, outputChannel, channels >>]_vars

\* after an alert, a file-backed edit inserting characters below the threshold
\* then in force has been handled
C15_Witness ==
    /\ Qualified(lastEvent)
    /\ InsertedTotal(lastEvent.contentChanges) > 0
    /\ Unflagged(lastEvent)
    /\ ~lastEvent.alerted
    /\ Len(runs) = 1
    /\ Len(notifications) = 2
    /\ Len(statusBar) = 1

\* C16: invoking the test-sound command starts exactly one run, with its first
\* external process outstanding, and issues nothing to the user yet; a step of
\* a test run issues the test notification exactly when it finishes the run
\* (played or not), and nothing else; the test notification is issued by no
\* other step; no step of a test run issues a status-bar message or takes an
\* edit event.
C16_TestCommandRunsChainOnce ==
    [][ /\ (Len(runs') > Len(runs) /\ runs'[Len(runs')].origin = "test") =>
            /\ Len(runs') = Len(runs) + 1
            /\ SubSeq(runs', 1, Len(runs)) = runs
            /\ FirstProcessOutstanding(runs'[Len(runs')])
            /\ UNCHANGED << notifications, statusBar, lastEvent >>
        /\ \A r \in 1..Len(runs) :
              (runs[r].origin = "test" /\ runs'[r] # runs[r]) =>
                /\ notifications' = IF runs'[r].pc = "done"
                                     THEN Append(notifications, testNotification)
                                     ELSE notifications
                /\ UNCHANGED << statusBar, lastEvent >>
        /\ (Len(notifications') > Len(notifications)
              /\ notifications'[Len(notifications')] = testNotification) =>
                \E r \in 1..Len(runs) :
                    /\ runs[r].origin = "test"
                    /\ runs[r].pc # "done"
                    /\ runs'[r].pc = "done" ]_vars

\* a test run whose candidates all failed has finished, the test notification
\* is issued and no edit alert was
C16_Witness ==
    \E r \in 1..Len(runs) :
        /\ runs[r].origin = "test"
        /\ AllCandidatesFailed(runs[r])
        /\ notifications = <<activatedNotification, testNotification>>
        /\ statusBar = <<>>

\* the invocations of the run that succeeded
Succeeded(run) == { k \in 1..Len(run.invoked) : run.invoked[k].outcome = "ok" }

\* the outcome lines a run has logged
OutcomeLines(run) == LinesOfKind(run, "succeeded") \cup LinesOfKind(run, "playback failed")

\* C17: a run in progress has logged no outcome line; a finished run has logged
\* exactly one, as its last line: the success line, carrying the label and the
\* command of the first candidate in list order that succeeded, when some
\* candidate succeeded, and the generic failure line otherwise.  Every
\* notification issued is the activation, the test or an edit notification:
\* none reports a sound failure.
C17_OneOutcomeLinePerRun ==
    /\ \A r \in 1..Len(runs) :
          LET run == runs[r]
              first == CHOOSE k \in Succeeded(run) : \A j \in Succeeded(run) : k <= j
              candidate == run.candidates[run.invoked[first].index]
          IN  IF run.pc # "done" THEN OutcomeLines(run) = {}
              ELSE /\ OutcomeLines(run) = {Len(run.lines)}
                   /\ IF Succeeded(run) # {}
                      THEN /\ run.lines[Len(run.lines)] =
                                [kind |-> "succeeded", command |-> candidate.command,
                                 label |-> candidate.label]
                           /\ \A i \in 1..(run.invoked[first].index - 1) :
                                 \E k \in 1..Len(run.invoked) :
                                     /\ run.invoked[k].index = i
                                     /\ run.invoked[k].outcome = "failed"
                      ELSE run.lines[Len(run.lines)].kind = "playback failed"
    /\ \A i \in 1..Len(notifications) :
          notifications[i] \in {activatedNotification, testNotification}
                               \cup {editNotification(f) : f \in FileNames}

\* a finished run whose first candidate failed and whose second succeeded has
\* logged the success line of the second candidate
C17_Witness ==
    \E r \in 1..Len(runs) :
        /\ runs[r].pc = "done"
        /\ Len(runs[r].invoked) = 2
        /\ runs[r].invoked[1].outcome = "failed"
        /\ runs[r].invoked[2].outcome = "ok"
        /\ runs[r].lines[Len(runs[r].lines)] = succeededLine(runs[r].candidates[2])
        /\ LinesOfKind(runs[r], "playback failed") = {}

\* C18: in every run no candidate is invoked twice and there are at most as
\* many invocations as candidates; and, when every external process
\* eventually ends, every run that was started eventually finishes, having
\* played a candidate or reported failure.
C18_NoRetriesAndTermination ==
    /\ [](\A r \in 1..Len(runs) :
            /\ Len(runs[r].invoked) <= Len(runs[r].candidates)
            /\ \A j, k \in 1..Len(runs[r].invoked) :
                  runs[r].invoked[j].index = runs[r].invoked[k].index => j = k)
    /\ \A r \in 1..MaxRuns :
          (r <= Len(runs)) ~> (r <= Len(runs) /\ runs[r].pc = "done")

\* a run has finished after invoking each of its five candidates once, all of
\* which failed
C18_Witness ==
    \E r \in 1..Len(runs) :
        /\ AllCandidatesFailed(runs[r])
        /\ Len(runs[r].candidates) = 5
        /\ Len(runs[r].invoked) = 5

\* the run has built its candidate list
ListBuilt(run) == run.pc \in {"exec", "done"}

\* the elements of a sequence
Range(seq) == { seq[i] : i \in 1..Len(seq) }

\* C19: a run that has built its candidate list has a non-empty one and has
\* invoked its first candidate; outside WSL the list is exactly the bare names
\* powershell.exe then pwsh.exe, inside WSL it contains the two fixed absolute
\* paths and the bare name pwsh.exe whatever the translations gave; no run
\* logs the "no candidates" line, and no run finishes without an invocation.
C19_CandidateListNeverEmpty ==
    \A r \in 1..Len(runs) :
        LET run == runs[r]
        IN  /\ LinesOfKind(run, "no candidates") = {}
            /\ run.pc = "done" => Len(run.invoked) >= 1
            /\ ListBuilt(run) =>
                  /\ Len(run.candidates) >= 1
                  /\ Len(run.invoked) >= 1
                  /\ IF platformIsWSL
                     THEN { [command |-> "/mnt/c/Windows/System32/WindowsPowerShell/v1.0/powershell.exe",
                             label |-> "powershell.exe (absolute /mnt/c)"],
                            [command |-> "pwsh.exe", label |-> "pwsh.exe (PATH)"],
                            [command |-> "/mnt/c/Program Files/PowerShell/7/pwsh.exe",
                             label |-> "pwsh.exe (absolute /mnt/c)"] }
                              \subseteq Range(run.candidates)
                     ELSE run.candidates =
                            << [command |-> "powershell.exe", label |-> "powershell.exe (PATH)"],
                               [command |-> "pwsh.exe", label |-> "pwsh.exe (PATH)"] >>

\* in WSL both translations failed and the run invokes a candidate of a list
\* of three
C19_Witness ==
    \E r \in 1..Len(runs) :
        /\ platformIsWSL
        /\ runs[r].wslpaths = <<Undefined, Undefined>>
        /\ Len(runs[r].candidates) = 3
        /\ Len(runs[r].invoked) >= 1

RECURSIVE LinesOfRuns(_)
\* the lines all the runs have appended, plus the line logged where each was
\* started (the edit line, or the manual test line)
LinesOfRuns(rs) ==
    IF rs = <<>> THEN 0
    ELSE 1 + Len(Head(rs).lines) + LinesOfRuns(Tail(rs))

\* C20: at most one output channel is ever created, the module keeps that one
\* once it exists, and every line logged at an edit alert, at a test command
\* or by a run, in whatever order the runs interleave, is in that channel.
C20_SingleOutputChannel ==
    /\ Len(channels) <= 1
    /\ outputChannel = (IF activated THEN Some(1) ELSE Undefined)
    /\ activated <=> Len(channels) = 1
    /\ activated => channels[1] = LinesOfRuns(runs)
    /\ ~activated => runs = <<>>

\* two runs in progress at once have each logged lines after both were
\* started, all in the one channel
C20_Witness ==
    /\ Len(channels) = 1
    /\ Len(runs) >= 2
    /\ \A r \in 1..2 : runs[r].pc = "exec" /\ Len(runs[r].invoked) >= 2
    /\ channels[1] = LinesOfRuns(runs)
    /\ channels[1] >= 8

====
